---- MODULE Spec2Model ----
(***************************************************************************)
(* webexec-lite: the request resolution and dispatch pipeline of the HTTP  *)
(* server (the handler registered with http.HandleFunc("/") in main), the  *)
(* external handler invocation, the directory listing renderer and the     *)
(* response-capturing StatusWriter.                                        *)
(*                                                                         *)
(* The dispatcher modelled is the revision that uses logutil.go's          *)
(* StatusWriter and RenderDirList (src/unnamed/part_003 with               *)
(* src/logutil.go and src/unnamed/part_000).  serveErrorPage, isExecutable,*)
(* resolveHandlerCommand and tryServeIndexWithHandler are textually the    *)
(* same in src/main.go.                                                    *)
(*                                                                         *)
(* Strings are sequences of tokens: a token is a run of characters without *)
(* "/" or ".", or one of the separators "/" and ".".  Byte contents (file  *)
(* data, process output, response bodies) are sequences of tokens too.     *)
(***************************************************************************)
EXTENDS Integers, Sequences, FiniteSets, TLC

VARIABLES
    fileCfg,   \* the decoded config file (the fields the dispatcher reads)
    fs,        \* the filesystem: cleaned path -> node
    edits,     \* number of filesystem changes made so far
    pc,        \* "idle": waiting for a request; "done": a request was handled
    req,       \* the request handled last
    branch,    \* which response branch the dispatcher took for it
    rw,        \* the underlying http.ResponseWriter, as the client sees it
    sw,        \* the StatusWriter wrapped around it (Status, Bytes)
    trace,     \* what the handler did to the response and the loggers, in order
    run,       \* the external process the handler spawned, if any
    seen,      \* the filesystem as the handler's earlier probes saw it
    main,      \* where the main goroutine is, from the signal wait to exit
    listener,  \* the listening socket of server.ListenAndServe
    inflight,  \* number of requests being handled
    grace,     \* seconds spent inside server.Shutdown
    quit,      \* a signal is buffered in the quit channel
    sinks,     \* the three log files: "none", "open" or "closed"
    shut,      \* what is known of the shutdown: requested, returned, how
    outcome,   \* how the request finished last ended
    worker,    \* per request goroutine: the log lines still to write
    holders,   \* per log sink: the goroutines holding its logger's mutex
    written,   \* per log sink: what has been written to the file, in order
    wrapper    \* a StatusWriter taken alone: its context and the calls made

\* The dispatcher and what it works on.
dvars == <<fileCfg, fs, edits, pc, req, branch, rw, sw, trace, run, seen>>
\* The life of the process.
lvars == <<main, listener, inflight, grace, quit, sinks, shut, outcome>>

\* The loggers and their files.
gvars == <<worker, holders, written>>
\* The StatusWriter taken alone.
wvars == <<wrapper>>

vars == <<dvars, lvars, gvars, wvars>>

----------------------------------------------------------------------------
(* Bounds of the model *)

\* Longest output (in chunks) an external handler process writes.
MaxOut == 2
\* Number of changes the environment makes to the filesystem.
MaxFsEdits == 1
\* Longest list of index names a config file gives.
MaxIndexes == 2

----------------------------------------------------------------------------
(* Strings and paths *)

Slash == "/"
Dot == "."

\* strings.ToLower on one token
ToLowerTok(t) ==
    CASE t = "CGI" -> "cgi"
      [] t = "PHP" -> "php"
      [] t = "S" -> "s"
      [] OTHER -> t

\* strings.ToLower
ToLower(s) == [i \in 1..Len(s) |-> ToLowerTok(s[i])]

\* filepath.Ext: the suffix beginning at the final dot in the final element
\* of the path; empty if there is no dot.
RECURSIVE ExtFrom(_, _)
ExtFrom(p, i) ==
    IF i = 0 \/ p[i] = Slash THEN <<>>
    ELSE IF p[i] = Dot THEN SubSeq(p, i, Len(p))
    ELSE ExtFrom(p, i - 1)

Ext(p) == ExtFrom(p, Len(p))

\* The elements of a path: the runs of tokens between slashes.
RECURSIVE SplitFrom(_, _, _)
SplitFrom(p, i, cur) ==
    IF i > Len(p) THEN <<cur>>
    ELSE IF p[i] = Slash THEN <<cur>> \o SplitFrom(p, i + 1, <<>>)
    ELSE SplitFrom(p, i + 1, Append(cur, p[i]))

Split(p) == SplitFrom(p, 1, <<>>)

IsAbs(p) == Len(p) > 0 /\ p[1] = Slash

RECURSIVE JoinElems(_)
JoinElems(es) ==
    IF Len(es) = 0 THEN <<>>
    ELSE IF Len(es) = 1 THEN es[1]
    ELSE es[1] \o <<Slash>> \o JoinElems(Tail(es))

\* filepath.Clean: drops empty elements and "." elements (so duplicate and
\* trailing slashes and a leading "./" go away).  ".." elements do not occur:
\* http.ServeMux cleans the URL path before the handler runs.
Clean(p) ==
    LET es == SelectSeq(Split(p), LAMBDA e : e # <<>> /\ e # <<Dot>>)
        body == JoinElems(es)
    IN  IF IsAbs(p) THEN <<Slash>> \o body
        ELSE IF body = <<>> THEN <<Dot>>
        ELSE body

\* filepath.Join(dir, name)
Join(dir, name) == Clean(dir \o <<Slash>> \o name)

HasTrailingSlash(p) == Len(p) > 1 /\ p[Len(p)] = Slash

\* The sequences over S of length at most n.
RECURSIVE SeqsUpTo(_, _)
SeqsUpTo(S, n) ==
    IF n = 0 THEN {<<>>}
    ELSE LET shorter == SeqsUpTo(S, n - 1)
         IN  shorter \cup {Append(q, x) : q \in shorter, x \in S}

----------------------------------------------------------------------------
(* Configuration: the built-in defaults and the merge of the config file *)

N_index_html == <<"index", ".", "html">>
N_index_htm == <<"index", ".", "htm">>
N_index_php == <<"index", ".", "php">>
N_sub == <<"sub">>

DefaultHomeDir == <<".", "/", "public">>
DefaultNotFound == <<".", "/", "public", "/", "404", ".", "html">>
DefaultIndexes == <<N_index_html, N_index_htm>>

\* A custom 404 page a config file may name (relative to the working directory).
CustomNotFound == <<"err", ".", "html">>

\* The placeholder of an argument template.
FilepathVar == "{filepath}"

\* The handler map of the config file: ".cgi" runs a command named relative
\* to the working directory, ".php" the same command named by absolute path.
E_cgi == <<".", "cgi">>
E_php == <<".", "php">>
Cwd == <<"/", "srv">>
RelCommand == <<"run">>
AbsCommand == <<"/", "srv", "/", "run">>

HandlerMap ==
    (E_cgi :> [Command |-> RelCommand, Args |-> << <<"-f">>, <<FilepathVar>> >>])
    @@ (E_php :> [Command |-> AbsCommand, Args |-> << <<"x=", FilepathVar, ";">> >>])

IndexNames == {N_index_html, N_index_php, N_sub}

\* The index lists a config file may give: none (the field is absent), or
\* up to MaxIndexes distinct names.
IndexLists ==
    {l \in SeqsUpTo(IndexNames, MaxIndexes) :
        \A i, j \in 1..Len(l) : i # j => l[i] # l[j]}

\* The config files: one naming no 404 page, with any of the index lists, and
\* one naming a custom 404 page and no index list.
FileConfigs ==
    [NotFound : {<<>>}, DefaultIndexes : IndexLists, Handlers : {HandlerMap}]
    \cup [NotFound : {CustomNotFound}, DefaultIndexes : {<<>>},
          Handlers : {HandlerMap}]

\* main: cfg after the defaults are overlaid with the non-empty fields of the
\* config file.
MergeConfig(fc) ==
    [HomeDir |-> DefaultHomeDir,
     NotFound |-> IF fc.NotFound # <<>> THEN fc.NotFound ELSE DefaultNotFound,
     DefaultIndexes |->
        IF Len(fc.DefaultIndexes) > 0 THEN fc.DefaultIndexes ELSE DefaultIndexes,
     Handlers |->
        IF Cardinality(DOMAIN fc.Handlers) > 0 THEN fc.Handlers ELSE <<>>]

cfg == MergeConfig(fileCfg)

----------------------------------------------------------------------------
(* The filesystem *)

F_root == <<"public">>
F_a == <<"public", "/", "a", ".", "html">>
F_index_html == <<"public", "/", "index", ".", "html">>
F_index_php == <<"public", "/", "index", ".", "php">>
F_S_CGI == <<"public", "/", "S", ".", "CGI">>
F_404 == <<"public", "/", "404", ".", "html">>
F_sub == <<"public", "/", "sub">>
F_sub_z == <<"public", "/", "sub", "/", "z", ".", "txt">>
F_err == <<"err", ".", "html">>
F_cmd == <<"/", "srv", "/", "run">>

FsPaths == {F_root, F_a, F_index_html, F_index_php, F_S_CGI, F_404, F_sub,
            F_sub_z, F_err, F_cmd}

\* kind: "none" (no such entry), "file", "dir"; x: some execute bit is set;
\* r: the server may open (file) or enumerate (directory) it.
NoNode == [kind |-> "none", x |-> FALSE, r |-> FALSE]
FileNode == [kind |-> "file", x |-> FALSE, r |-> TRUE]
ExecNode == [kind |-> "file", x |-> TRUE, r |-> TRUE]
DirNode == [kind |-> "dir", x |-> TRUE, r |-> TRUE]

BaseFs ==
    [p \in FsPaths |->
        IF p \in {F_root, F_sub} THEN DirNode
        ELSE IF p = F_cmd THEN ExecNode
        ELSE FileNode]

\* The bytes of each regular file.
FileData(p) ==
    CASE p = F_a -> <<"A1", "A2">>
      [] p = F_index_html -> <<"I1">>
      [] p = F_index_php -> <<"<?php">>
      [] p = F_S_CGI -> <<"#!sh">>
      [] p = F_404 -> <<"custom404">>
      [] p = F_err -> <<"E1", "E2">>
      [] p = F_sub_z -> <<"Z1">>
      [] OTHER -> <<"ELF">>

Node(f, p) == IF p \in DOMAIN f THEN f[p] ELSE NoNode

\* One change the environment may make: remove a file, clear a command's
\* execute bits, make a file or directory unreadable, put a directory where
\* the command was.
FsEdits(f) ==
    {[f EXCEPT ![p] = NoNode] :
        p \in {q \in FsPaths : f[q].kind = "file"}}
    \cup {[f EXCEPT ![F_cmd].x = FALSE] : b \in {f[F_cmd].kind = "file" /\ f[F_cmd].x} \ {FALSE}}
    \cup {[f EXCEPT ![p].r = FALSE] :
        p \in {q \in {F_a, F_sub} : f[q].kind # "none" /\ f[q].r}}
    \cup {[f EXCEPT ![F_cmd] = DirNode] : b \in {f[F_cmd].kind = "none"} \ {FALSE}}

\* os.Stat: err when the path names nothing, or names a file through a
\* trailing slash.
Stat(f, p) ==
    LET n == Node(f, Clean(p))
    IN  [err |-> n.kind = "none" \/ (HasTrailingSlash(p) /\ n.kind = "file"),
         IsDir |-> n.kind = "dir",
         x |-> n.x]

----------------------------------------------------------------------------
(* The response: net/http's ResponseWriter and the StatusWriter around it *)

\* The status codes the repository's code writes itself.
StatusOK == 200
StatusNotFound == 404
StatusInternalServerError == 500

\* head: the response answers a HEAD request.
NewResponse ==
    [wroteHeader |-> FALSE, code |-> 0, ctype |-> <<>>, location |-> <<>>,
     body |-> <<>>, aborted |-> FALSE, head |-> FALSE]

\* One entry of the trace: a call on the response or on a logger.
Ev(op, status, n) == [op |-> op, status |-> status, n |-> n]

\* net/http: no body goes with these statuses.
BodyAllowedForStatus(code) ==
    ~(code \in 100..199 \/ code = 204 \/ code = 304)

\* net/http response.WriteHeader: the first call decides the status line,
\* later calls are ignored.
RespWriteHeader(r, code) ==
    IF r.wroteHeader THEN r
    ELSE [r EXCEPT !.wroteHeader = TRUE, !.code = code]

\* net/http response.Write: writes the header with 200 if none was written;
\* the first bytes decide the Content-Type when the handler set none.  The
\* bytes of the answer to a HEAD request are accepted (n = len) and dropped
\* by the chunk writer.
RespWriteN(r, b) ==
    IF Len(b) = 0 \/ ~BodyAllowedForStatus(RespWriteHeader(r, StatusOK).code)
    THEN 0 ELSE Len(b)

RespWrite(r, b) ==
    LET r1 == RespWriteHeader(r, StatusOK)
    IN  IF RespWriteN(r, b) = 0 THEN r1
        ELSE [r1 EXCEPT !.body = IF r.head THEN @ ELSE @ \o b,
                        !.ctype = IF @ = <<>> THEN <<"sniffed">> ELSE @]

\* The handler's context: the response, the StatusWriter's fields when the
\* branch wrapped the response in one, the trace and the spawned process.
NoRun == [spawned |-> FALSE]

NewContext(wrapped, status) ==
    [rw |-> NewResponse, wrapped |-> wrapped, Status |-> status, Bytes |-> 0,
     trace |-> <<>>, run |-> NoRun]

\* The context of the handler that answers request r.
ContextFor(r, wrapped, status) ==
    [NewContext(wrapped, status) EXCEPT !.rw.head = (r.Method = "HEAD")]

\* StatusWriter.WriteHeader, or the bare ResponseWriter's when not wrapped
WriteHeader(c, code) ==
    IF c.wrapped
    THEN [c EXCEPT !.Status = code,
                   !.rw = RespWriteHeader(@, code),
                   !.trace = Append(@, Ev("WriteHeader", code, 0))]
    ELSE [c EXCEPT !.rw = RespWriteHeader(@, code),
                   !.trace = Append(@, Ev("WriteHeader", code, 0))]

\* StatusWriter.Write, or the bare ResponseWriter's when not wrapped
Write(c, b) ==
    IF c.wrapped
    THEN [c EXCEPT !.Bytes = @ + RespWriteN(c.rw, b),
                   !.rw = RespWrite(@, b),
                   !.trace = Append(@, Ev("Write", 0, RespWriteN(c.rw, b)))]
    ELSE [c EXCEPT !.rw = RespWrite(@, b),
                   !.trace = Append(@, Ev("Write", 0, RespWriteN(c.rw, b)))]

\* w.Header().Set("Content-Type", v)
SetContentType(c, v) == [c EXCEPT !.rw.ctype = v]

\* logAccess: one line with the StatusWriter's status and byte count
logAccess(c) == [c EXCEPT !.trace = Append(@, Ev("access", c.Status, c.Bytes))]

\* errorLogger.Printf("%s %s %d %s", method, path, ww.Status, remote)
logError(c) == [c EXCEPT !.trace = Append(@, Ev("error", c.Status, 0))]

\* handlerLogger.Printf(... status) when the caller passed a logger
logHandler(c, hasLogger, status) ==
    IF hasLogger THEN [c EXCEPT !.trace = Append(@, Ev("handler", status, 0))]
    ELSE c

----------------------------------------------------------------------------
(* Requests *)

U_root == <<"/">>
U_a == <<"/", "a", ".", "html">>
U_index_html == <<"/", "index", ".", "html">>
U_index_php == <<"/", "index", ".", "php">>
U_S_CGI == <<"/", "S", ".", "CGI">>
U_sub == <<"/", "sub", "/">>
U_nope == <<"/", "nope">>

UrlPaths == {U_root, U_a, U_index_html, U_index_php, U_S_CGI, U_sub, U_nope}

\* Neg: what the request headers ask of the file-serving primitive: nothing,
\* a byte range, or a validator the file still matches.  Only the requests
\* for the static page vary in it.
Negotiating == {U_a}

\* Header names (canonical MIME form) and Host values.
H_Cookie == <<"Cookie">>
H_X_Foo == <<"X", "-", "Foo">>
H_Content_Type == <<"Content", "-", "Type">>
H_Content_Length == <<"Content", "-", "Length">>
HostWithPort == <<"example", ".", "com", ":", "8080">>
HostOnly == <<"example", ".", "com">>

\* r.Header maps a name to the values of its header lines, in order.  Order
\* is the order in which a range over r.Header visits the names, which the
\* language leaves unspecified.
NoHeader == [n \in {} |-> <<>>]
OneCookie == [n \in {H_Cookie} |-> <<"a=1">>]
TwoCookies == [n \in {H_Cookie} |-> <<"a=1", "b=2">>]
CookieAndFoo ==
    [n \in {H_Cookie, H_X_Foo} |->
        IF n = H_Cookie THEN <<"a=1">> ELSE <<"1", "2">>]
Entity ==
    [n \in {H_Content_Type, H_Content_Length} |->
        IF n = H_Content_Type THEN <<"text/plain">> ELSE <<"3">>]

\* The request metadata the external handler is told about.  Only the
\* requests for the script vary in it.
DefaultMeta ==
    [Host |-> HostWithPort, RawQuery |-> <<>>, Header |-> OneCookie,
     Order |-> <<H_Cookie>>]
Metas ==
    {DefaultMeta,
     [Host |-> HostWithPort, RawQuery |-> <<>>, Header |-> NoHeader,
      Order |-> <<>>],
     [Host |-> HostWithPort, RawQuery |-> <<"q=1">>, Header |-> TwoCookies,
      Order |-> <<H_Cookie>>],
     [Host |-> HostOnly, RawQuery |-> <<"q=1">>, Header |-> CookieAndFoo,
      Order |-> <<H_Cookie, H_X_Foo>>],
     [Host |-> HostOnly, RawQuery |-> <<"q=1">>, Header |-> CookieAndFoo,
      Order |-> <<H_X_Foo, H_Cookie>>],
     [Host |-> HostOnly, RawQuery |-> <<>>, Header |-> Entity,
      Order |-> <<H_Content_Type, H_Content_Length>>],
     [Host |-> HostOnly, RawQuery |-> <<>>, Header |-> Entity,
      Order |-> <<H_Content_Length, H_Content_Type>>]}
Scripted == {U_S_CGI}

Requests ==
    [Path : UrlPaths, Method : {"GET"}, Neg : {"none"}, Meta : {DefaultMeta}]
    \cup [Path : Negotiating, Method : {"GET"}, Neg : {"range", "cond"},
          Meta : {DefaultMeta}]
    \cup [Path : Negotiating, Method : {"HEAD"}, Neg : {"none"},
          Meta : {DefaultMeta}]
    \cup [Path : Scripted, Method : {"GET"}, Neg : {"none"}, Meta : Metas]

NoRequest ==
    [Path |-> <<>>, Method |-> "", Neg |-> "none", Meta |-> DefaultMeta]

HasSuffix(s, suffix) ==
    Len(s) >= Len(suffix)
    /\ SubSeq(s, Len(s) - Len(suffix) + 1, Len(s)) = suffix

----------------------------------------------------------------------------
(* Serving a file: http.Error and http.ServeFile *)

\* http.Error: text/plain, the status, the message and a newline
HttpError(c, msg, code) ==
    Write(WriteHeader(SetContentType(c, <<"text/plain; charset=utf-8">>), code),
          <<msg, "\n">>)

\* The Content-Type http.ServeFile derives from the file's extension.
TypeByExtension(name) == <<"type-of">> \o ToLower(Ext(name))

\* http.ServeFile(w, r, name) on filesystem f:
\*   a URL path ending in "/index.html" is redirected to "./";
\*   a file that cannot be opened is answered 404 (missing) or 403 (no
\*   permission); a validator that still matches is answered 304 without a
\*   body; a byte range is answered 206 with that part; otherwise 200 with the
\*   whole file, and HEAD gets the header without the body.
ServeFile(c, r, name, f) ==
    LET n == Node(f, Clean(name))
        data == FileData(Clean(name))
        typed == SetContentType(c, TypeByExtension(name))
    IN  IF HasSuffix(r.Path, <<Slash>> \o N_index_html)
        THEN WriteHeader([c EXCEPT !.rw.location = <<".", "/">>], 301)
        ELSE IF n.kind # "file"
        THEN HttpError(c, "404 page not found", StatusNotFound)
        ELSE IF ~n.r
        THEN HttpError(c, "403 Forbidden", 403)
        ELSE IF r.Neg = "cond"
        THEN WriteHeader(c, 304)
        ELSE IF r.Neg = "range"
        THEN Write(WriteHeader(typed, 206), SubSeq(data, 1, 1))
        ELSE IF r.Method = "HEAD"
        THEN WriteHeader(typed, StatusOK)
        ELSE Write(WriteHeader(typed, StatusOK), data)

----------------------------------------------------------------------------
(* The error page *)

NotFoundMsg == <<"404 page not found">>

\* ioutil.ReadFile: fails unless the path names a readable regular file
ReadFileOk(f, p) == Node(f, Clean(p)).kind = "file" /\ Node(f, Clean(p)).r

\* serveErrorPage(w, code, pagePath, defaultMsg)
\* A variant that ignores the configured page and always writes the built-in
\* message.
serveErrorPage_AlwaysDefault(c, code, pagePath, defaultMsg, f) ==
    Write(WriteHeader(c, code), defaultMsg)

serveErrorPage(c, code, pagePath, defaultMsg, f) ==
    LET c1 == WriteHeader(c, code)
    IN  IF pagePath # <<>> /\ ReadFileOk(f, pagePath)
        THEN Write(c1, FileData(Clean(pagePath)))
        ELSE Write(c1, defaultMsg)

----------------------------------------------------------------------------
(* The external handler *)

\* isExecutable: the path can be stat'ed and has some execute bit set
\* A variant that only checks that the path exists.
isExecutable_ExistsOnly(f, path) == ~Stat(f, path).err

isExecutable(f, path) == ~Stat(f, path).err /\ Stat(f, path).x

\* resolveHandlerCommand: an absolute command as it is, a relative one
\* joined to the working directory (filepath.Abs).  The working directory
\* can be read as long as the server runs in it.
resolveHandlerCommand(cmdPath) ==
    IF IsAbs(cmdPath) THEN cmdPath ELSE Join(Cwd, cmdPath)

\* strings.ReplaceAll(arg, "{filepath}", filePath)
RECURSIVE ReplaceAll(_, _, _)
ReplaceAll(arg, old, new) ==
    IF arg = <<>> THEN <<>>
    ELSE (IF Head(arg) = old THEN new ELSE <<Head(arg)>>)
         \o ReplaceAll(Tail(arg), old, new)

SubstituteArgs(args, filePath) ==
    [i \in 1..Len(args) |-> ReplaceAll(args[i], FilepathVar, filePath)]

----------------------------------------------------------------------------
(* The environment of the external handler *)

\* strings.ToUpper on one token
ToUpperTok(t) ==
    CASE t = "Cookie" -> "COOKIE"
      [] t = "Foo" -> "FOO"
      [] t = "Content" -> "CONTENT"
      [] t = "Type" -> "TYPE"
      [] t = "Length" -> "LENGTH"
      [] OTHER -> t

\* strings.ToUpper
ToUpper(s) == [i \in 1..Len(s) |-> ToUpperTok(s[i])]

\* strings.Join(values, ",")
RECURSIVE JoinComma(_)
JoinComma(values) ==
    IF values = <<>> THEN <<>>
    ELSE IF Len(values) = 1 THEN <<values[1]>>
    ELSE <<values[1], ",">> \o JoinComma(Tail(values))

\* r.Header.Get(name): the first value of the header, "" without one
HeaderGet(header, name) ==
    IF name \in DOMAIN header /\ header[name] # <<>>
    THEN <<header[name][1]>> ELSE <<>>

\* net.SplitHostPort: host and port around the last colon; an error when
\* there is no colon
SplitHostPort(hostport) ==
    LET colons == {i \in 1..Len(hostport) : hostport[i] = ":"}
        last == CHOOSE i \in colons : \A j \in colons : j <= i
    IN  IF colons = {}
        THEN [err |-> TRUE, host |-> <<>>, port |-> <<>>]
        ELSE [err |-> FALSE, host |-> SubSeq(hostport, 1, last - 1),
              port |-> SubSeq(hostport, last + 1, Len(hostport))]

\* One "KEY=value" entry of an environment list.  A key is split into
\* tokens after the prefix "HTTP_" and around each underscore that stands
\* for a hyphen, however the code spells it.
KV(key, val) == [k |-> key, v |-> val]

\* os.Environ(): the environment of the server process.  It may already
\* hold a variable of the CGI set.
ParentEnv ==
    <<KV(<<"PATH">>, <<"/bin">>), KV(<<"REQUEST_METHOD">>, <<"stale">>)>>

RemoteAddr == <<"10.0.0.1", ":", "5555">>
Proto == <<"HTTP/1.1">>

\* r.RequestURI: the request target of the request line
RequestURI(r) ==
    r.Path \o (IF r.Meta.RawQuery = <<>> THEN <<>>
               ELSE <<"?">> \o r.Meta.RawQuery)

\* The entries appended for the inbound headers, in the order the range
\* over r.Header visits them.
HeaderVars(r) ==
    [i \in 1..Len(r.Meta.Order) |->
        KV(<<"HTTP_">> \o ToUpper(ReplaceAll(r.Meta.Order[i], "-", <<"_">>)),
           JoinComma(r.Meta.Header[r.Meta.Order[i]]))]

\* cmd.Env as handleWithExternal builds it.
CGIEnv(r, filePath) ==
    LET hp == SplitHostPort(r.Meta.Host)
        cookieHeader == HeaderGet(r.Meta.Header, H_Cookie)
    IN  ParentEnv
        \o <<KV(<<"REQUEST_METHOD">>, <<r.Method>>),
              KV(<<"QUERY_STRING">>, r.Meta.RawQuery),
              KV(<<"CONTENT_TYPE">>, HeaderGet(r.Meta.Header, H_Content_Type)),
              KV(<<"CONTENT_LENGTH">>,
                 HeaderGet(r.Meta.Header, H_Content_Length)),
              KV(<<"SCRIPT_NAME">>, r.Path),
              KV(<<"PATH_INFO">>, filePath),
              KV(<<"REMOTE_ADDR">>, RemoteAddr)>>
        \o HeaderVars(r)
        \o <<KV(<<"HTTP_", "HOST">>, r.Meta.Host)>>
        \o (IF cookieHeader # <<>>
             THEN <<KV(<<"HTTP_", "COOKIE">>, cookieHeader)>> ELSE <<>>)
        \o <<KV(<<"SERVER_PROTOCOL">>, Proto)>>
        \o (IF ~hp.err
             THEN <<KV(<<"SERVER_NAME">>, hp.host),
                    KV(<<"SERVER_PORT">>, hp.port)>>
             ELSE <<KV(<<"SERVER_NAME">>, r.Meta.Host)>>)
        \o <<KV(<<"REQUEST_URI">>, RequestURI(r))>>

\* The environment the started process gets from cmd.Env: os/exec keeps,
\* of the entries with the same key, the last one only.
RECURSIVE dedupEnvFrom(_, _)
dedupEnvFrom(env, i) ==
    IF i > Len(env) THEN <<>>
    ELSE (IF \E j \in (i + 1)..Len(env) : env[j].k = env[i].k
          THEN <<>> ELSE <<env[i]>>)
         \o dedupEnvFrom(env, i + 1)

dedupEnv(env) == dedupEnvFrom(env, 1)

\* What the process started last received: its cmd.Env, deduplicated.
Environ == dedupEnv(run.env)

----------------------------------------------------------------------------
(* The external process *)

\* What a process writes: chunks on its standard output and standard error.
Chunks == {[stream |-> "stdout", data |-> "out"],
           [stream |-> "stderr", data |-> "err"]}

ExitCodes == {0, 1}

\* The runs of the command: it fails to start, or (when the path still names
\* an executable file) it starts, writes and exits.
ProcRuns(canStart) ==
    {[started |-> FALSE, exit |-> 1, chunks |-> <<>>]}
    \cup (IF canStart
          THEN [started : {TRUE}, exit : ExitCodes, chunks : SeqsUpTo(Chunks, MaxOut)]
          ELSE {})

CanStart(f, cmdPath) ==
    Node(f, Clean(cmdPath)).kind = "file" /\ Node(f, Clean(cmdPath)).x

StreamData(chunks, streams) ==
    LET kept == SelectSeq(chunks, LAMBDA ch : ch.stream \in streams)
    IN  [i \in 1..Len(kept) |-> kept[i].data]

\* A variant that captures standard output alone, as cmd.Output() does.
CombinedOutput_StdoutOnly(p) == StreamData(p.chunks, {"stdout"})

\* cmd.CombinedOutput(): everything written to either stream, in order
CombinedOutput(p) == StreamData(p.chunks, {"stdout", "stderr"})

\* A variant that reports an error only when the process cannot start.
RunErr_StartOnly(p) == ~p.started

\* err of cmd.CombinedOutput(): the start failed or the exit code is not 0
RunErr(p) == ~p.started \/ p.exit # 0

NotExecutableMsg == <<"Handler executable not found or not executable: ">>
DefaultContentType == <<"text/html; charset=utf-8">>

\* handleWithExternal(w, r, handler, filePath, handlerLogger): f1 is the
\* filesystem at the isExecutable probe, p the run of the command.
handleWithExternal(c, r, handler, filePath, hasLogger, f1, p) ==
    LET cmdPath == resolveHandlerCommand(handler.Command)
        args == SubstituteArgs(handler.Args, filePath)
        spawned == [c EXCEPT
                      !.run = [spawned |-> TRUE, cmd |-> cmdPath, args |-> args,
                               env |-> CGIEnv(r, filePath),
                               stdin |-> "r.Body", p |-> p],
                      !.trace = Append(@, Ev("spawn", 0, 0))]
        output == CombinedOutput(p)
    IN  IF ~isExecutable(f1, cmdPath)
        THEN logHandler(
                Write(WriteHeader(c, StatusInternalServerError),
                      NotExecutableMsg \o cmdPath),
                hasLogger, StatusInternalServerError)
        ELSE IF RunErr(p)
        THEN logHandler(
                Write(WriteHeader(spawned, StatusInternalServerError), output),
                hasLogger, StatusInternalServerError)
        ELSE logHandler(
                Write(IF spawned.rw.ctype = <<>>
                      THEN SetContentType(spawned, DefaultContentType)
                      ELSE spawned,
                      output),
                hasLogger, StatusOK)

----------------------------------------------------------------------------
(* The index resolver *)

\* A variant that looks the extension up as it is spelled in the path.
HasHandler_CaseSensitive(handlers, path) == Ext(path) \in DOMAIN handlers

\* handlers[strings.ToLower(filepath.Ext(path))] has an entry
HasHandler(handlers, path) == ToLower(Ext(path)) \in DOMAIN handlers

\* tryServeIndexWithHandler, from the i-th index name on: f1 is the
\* filesystem at the probes, f2 when the file found is opened.
RECURSIVE tryServeIndexFrom(_, _, _, _, _, _, _, _, _)
tryServeIndexFrom(c, r, dirPath, indexes, handlers, i, f1, f2, p) ==
    IF i > Len(indexes) THEN [found |-> FALSE, c |-> c, path |-> <<>>]
    ELSE LET indexPath == Join(dirPath, indexes[i])
             st == Stat(f1, indexPath)
         IN  IF ~st.err /\ ~st.IsDir
             THEN IF HasHandler(handlers, indexPath)
                  THEN [found |-> TRUE, path |-> indexPath,
                        c |-> handleWithExternal(c, r,
                                 handlers[ToLower(Ext(indexPath))],
                                 indexPath, FALSE, f1, p)]
                  ELSE [found |-> TRUE, path |-> indexPath,
                        c |-> ServeFile(c, r, indexPath, f2)]
             ELSE tryServeIndexFrom(c, r, dirPath, indexes, handlers, i + 1,
                                    f1, f2, p)

\* A variant that tries the configured index names last to first.
tryServeIndexWithHandler_LastFirst(c, r, dirPath, indexes, handlers, f1, f2, p) ==
    tryServeIndexFrom(c, r, dirPath,
                      [i \in 1..Len(indexes) |-> indexes[Len(indexes) + 1 - i]],
                      handlers, 1, f1, f2, p)

tryServeIndexWithHandler(c, r, dirPath, indexes, handlers, f1, f2, p) ==
    tryServeIndexFrom(c, r, dirPath, indexes, handlers, 1, f1, f2, p)

----------------------------------------------------------------------------
(* The directory listing *)

\* The bytes of the tokens that occur in file names.
TokBytes(t) ==
    CASE t = "." -> <<46>>
      [] t = "404" -> <<52, 48, 52>>
      [] t = "CGI" -> <<67, 71, 73>>
      [] t = "S" -> <<83>>
      [] t = "a" -> <<97>>
      [] t = "html" -> <<104, 116, 109, 108>>
      [] t = "index" -> <<105, 110, 100, 101, 120>>
      [] t = "php" -> <<112, 104, 112>>
      [] t = "sub" -> <<115, 117, 98>>
      [] t = "txt" -> <<116, 120, 116>>
      [] t = "z" -> <<122>>
      [] OTHER -> <<0>>

RECURSIVE NameBytes(_)
NameBytes(name) ==
    IF name = <<>> THEN <<>> ELSE TokBytes(Head(name)) \o NameBytes(Tail(name))

\* Go's < on strings: byte-wise, a proper prefix first
RECURSIVE BytesLess(_, _)
BytesLess(a, b) ==
    IF b = <<>> THEN FALSE
    ELSE IF a = <<>> THEN TRUE
    ELSE IF Head(a) # Head(b) THEN Head(a) < Head(b)
    ELSE BytesLess(Tail(a), Tail(b))

\* A variant that orders names descending.
NameLess_Descending(a, b) == BytesLess(NameBytes(b), NameBytes(a))

NameLess(a, b) == BytesLess(NameBytes(a), NameBytes(b))

\* The entries of a directory: the paths one element below it.
IsChild(p, d) ==
    /\ Len(p) > Len(d) + 1
    /\ SubSeq(p, 1, Len(d) + 1) = d \o <<Slash>>
    /\ \A i \in (Len(d) + 2)..Len(p) : p[i] # Slash

Children(f, dirPath) ==
    {p \in DOMAIN f : f[p].kind # "none" /\ IsChild(p, Clean(dirPath))}

BaseName(p, dirPath) == SubSeq(p, Len(Clean(dirPath)) + 2, Len(p))

\* os.ReadDir: fails unless the path names a directory that can be
\* enumerated; the entries come sorted by file name.
ReadDirOk(f, dirPath) ==
    Node(f, Clean(dirPath)).kind = "dir" /\ Node(f, Clean(dirPath)).r

RECURSIVE SortedNames(_)
SortedNames(S) ==
    IF S = {} THEN <<>>
    ELSE LET m == CHOOSE x \in S : \A y \in S \ {x} : NameLess(x, y)
         IN  <<m>> \o SortedNames(S \ {m})

ReadDir(f, dirPath) ==
    LET names == SortedNames({BaseName(p, dirPath) : p \in Children(f, dirPath)})
    IN  [i \in 1..Len(names) |->
            [Name |-> names[i],
             IsDir |-> f[Join(dirPath, names[i])].kind = "dir"]]

\* sort.Slice(infos, func(i, j) bool { return infos[i].Name < infos[j].Name })
RECURSIVE InsertByName(_, _)
InsertByName(sorted, e) ==
    IF sorted = <<>> THEN <<e>>
    ELSE IF NameLess(e.Name, Head(sorted).Name) THEN <<e>> \o sorted
    ELSE <<Head(sorted)>> \o InsertByName(Tail(sorted), e)

RECURSIVE SortSlice(_)
SortSlice(infos) ==
    IF infos = <<>> THEN <<>>
    ELSE InsertByName(SortSlice(Tail(infos)), Head(infos))

\* template.URLQueryEscaper on a path: each "/" becomes "%2F"
URLQueryEscaper(path) ==
    [i \in 1..Len(path) |-> IF path[i] = Slash THEN "%2F" ELSE path[i]]

\* The built-in template applied to one entry and to the page.
RenderEntry(prefix, e) ==
    <<"<li><a href=\"">> \o prefix \o e.Name
    \o (IF e.IsDir THEN <<Slash>> ELSE <<>>) \o <<"\">">>
    \o e.Name \o (IF e.IsDir THEN <<Slash>> ELSE <<>>) \o <<"</a></li>">>

RECURSIVE RenderEntries(_, _)
RenderEntries(prefix, infos) ==
    IF infos = <<>> THEN <<>>
    ELSE RenderEntry(prefix, Head(infos)) \o RenderEntries(prefix, Tail(infos))

RenderPage(urlPath, infos) ==
    <<"<html><head><title>Index of ">> \o urlPath
    \o <<"</title></head><body><h1>Index of ">> \o urlPath \o <<"</h1><ul>">>
    \o RenderEntries(URLQueryEscaper(urlPath), infos)
    \o <<"</ul></body></html>">>

ReadDirFailedMsg == <<"Failed to read directory.">>

\* RenderDirList(w, r, dirPath, urlPath): f1 is the filesystem when the
\* directory is enumerated, f2 when each entry's metadata is read.  An entry
\* gone by then has no metadata (info is nil) and info.Size() panics: the
\* request ends without a response.  No html/dirlist.html is deployed, so the
\* built-in template renders the page.
RenderDirList(c, r, dirPath, urlPath, f1, f2) ==
    LET files == ReadDir(f1, dirPath)
        infoNil == \E i \in 1..Len(files) :
                      Node(f2, Join(dirPath, files[i].Name)).kind = "none"
    IN  IF ~ReadDirOk(f1, dirPath)
        THEN Write(WriteHeader(c, StatusInternalServerError), ReadDirFailedMsg)
        ELSE IF infoNil
        THEN [c EXCEPT !.rw.aborted = TRUE,
                       !.trace = Append(@, Ev("panic", 0, 0))]
        ELSE Write(c, RenderPage(urlPath, SortSlice(files)))

----------------------------------------------------------------------------
(* The request dispatcher *)

\* What the handler function leaves behind: the branch taken, the file or
\* directory it served, the StatusWriter it built, and the context.
Outcome(name, target, c, ww) ==
    [branch |-> name, target |-> target, c |-> c,
     ww |-> [Status |-> ww.Status, Bytes |-> ww.Bytes]]

\* Missing: the 404 page through a StatusWriter, an error-log line, an
\* access-log line.
MissingBranch(r, filePath, f2) ==
    LET e == serveErrorPage(ContextFor(r, TRUE, StatusNotFound), StatusNotFound,
                            cfg.NotFound, NotFoundMsg, f2)
    IN  Outcome("missing", filePath, logAccess(logError(e)), e)

\* A variant that hands the URL path, not the path under the home directory,
\* to http.ServeFile.
StaticBranch_UrlPath(r, filePath, f2) ==
    LET served == ServeFile(ContextFor(r, TRUE, StatusOK), r, r.Path, f2)
    IN  Outcome("static", filePath, logAccess(served), served)

\* File without a handler: http.ServeFile through a StatusWriter, then an
\* access-log line.
StaticBranch(r, filePath, f2) ==
    LET served == ServeFile(ContextFor(r, TRUE, StatusOK), r, filePath, f2)
    IN  Outcome("static", filePath, logAccess(served), served)

\* File with a handler: the external handler with the handler logger, an
\* error-log line when the captured status is 400 or more, an access-log
\* line.
HandlerBranch(r, filePath, f1, p) ==
    LET h == handleWithExternal(ContextFor(r, TRUE, StatusOK), r,
                                cfg.Handlers[ToLower(Ext(filePath))],
                                filePath, TRUE, f1, p)
    IN  Outcome("handler", filePath,
                logAccess(IF h.Status >= 400 THEN logError(h) ELSE h), h)

\* A variant that answers a directory without an index file with the 404
\* page, as the earlier revision in src/main.go does.
DirectoryBranch_NotFound(r, filePath, f1, f2, p) ==
    LET ww == ContextFor(r, TRUE, StatusOK)
        idx == tryServeIndexWithHandler(ww, r, filePath, cfg.DefaultIndexes,
                                        cfg.Handlers, f1, f2, p)
        e == serveErrorPage(ww, StatusNotFound, cfg.NotFound, NotFoundMsg, f2)
    IN  IF idx.found
        THEN Outcome(IF HasHandler(cfg.Handlers, idx.path)
                     THEN "index-handler" ELSE "index-static",
                     idx.path, logAccess(idx.c), idx.c)
        ELSE Outcome("dirlist", filePath, logAccess(logError(e)), e)

\* Directory: the index file if one is found, logged through the
\* StatusWriter; otherwise the listing, written to the bare ResponseWriter
\* and not logged.
DirectoryBranch(r, filePath, f1, f2, p) ==
    LET ww == ContextFor(r, TRUE, StatusOK)
        idx == tryServeIndexWithHandler(ww, r, filePath, cfg.DefaultIndexes,
                                        cfg.Handlers, f1, f2, p)
    IN  IF idx.found
        THEN Outcome(IF HasHandler(cfg.Handlers, idx.path)
                     THEN "index-handler" ELSE "index-static",
                     idx.path, logAccess(idx.c), idx.c)
        ELSE Outcome("dirlist", filePath,
                     RenderDirList(ContextFor(r, FALSE, 0), r, filePath, r.Path,
                                   f1, f2),
                     ww)

\* The handler registered for "/": f0 is the filesystem at the first stat,
\* f1 at the probes that follow it, f2 when the target is opened or run.
Dispatch(r, f0, f1, f2, p) ==
    LET filePath == cfg.HomeDir \o r.Path
        st == Stat(f0, filePath)
    IN  IF ~st.err
        THEN IF st.IsDir
             THEN DirectoryBranch(r, filePath, f1, f2, p)
             ELSE IF HasHandler(cfg.Handlers, filePath)
             THEN HandlerBranch(r, filePath, f1, p)
             ELSE StaticBranch(r, filePath, f2)
        ELSE MissingBranch(r, filePath, f2)

----------------------------------------------------------------------------
(* The system: requests handled one at a time over a changing filesystem *)

\* The process while it serves: the log files are open, the listener is
\* bound, the main goroutine waits for a signal.
SinkNames == {"access", "error", "handler"}
NotShut == [requested |-> FALSE, returned |-> FALSE, pending |-> 0, elapsed |-> 0]
Serving ==
    /\ main = "wait"
    /\ listener = "open"
    /\ inflight = 0
    /\ grace = 0
    /\ quit = FALSE
    /\ sinks = [s \in SinkNames |-> "open"]
    /\ shut = NotShut
    /\ outcome = "none"

\* No StatusWriter is exercised on its own.
WriterIdle == wrapper = [c |-> NewContext(TRUE, StatusOK), calls |-> <<>>]

\* No request goroutine has a log line to write.
LogIdle ==
    /\ worker = <<>>
    /\ holders = [s \in SinkNames |-> {}]
    /\ written = [s \in SinkNames |-> <<>>]

\* No request has been handled.
Unused ==
    /\ fileCfg = [NotFound |-> <<>>, DefaultIndexes |-> <<>>]
    /\ fs = BaseFs
    /\ edits = 0
    /\ pc = "idle"
    /\ req = NoRequest
    /\ branch = [name |-> "none", target |-> <<>>]
    /\ rw = NewResponse
    /\ sw = [Status |-> 0, Bytes |-> 0]
    /\ trace = <<>>
    /\ run = NoRun
    /\ seen = [f0 |-> BaseFs, f1 |-> BaseFs]

NoBranch == [name |-> "none", target |-> <<>>]
NoStatusWriter == [Status |-> 0, Bytes |-> 0]
FailedStart == [started |-> FALSE, exit |-> 1, chunks |-> <<>>]

Init ==
    /\ fileCfg \in FileConfigs
    /\ fs = BaseFs
    /\ edits = 0
    /\ pc = "idle"
    /\ req = NoRequest
    /\ branch = NoBranch
    /\ rw = NewResponse
    /\ sw = NoStatusWriter
    /\ trace = <<>>
    /\ run = NoRun
    /\ seen = [f0 |-> BaseFs, f1 |-> BaseFs]
    /\ Serving
    /\ LogIdle
    /\ WriterIdle

\* What another process may do to filesystem f while one request is handled,
\* given n changes so far: nothing, or one change, either after the first
\* stat or just before the target is opened, run or its metadata read.
Interfere(f, n) ==
    {[f1 |-> f, f2 |-> f, n |-> n]}
    \cup (IF n < MaxFsEdits
          THEN {[f1 |-> g, f2 |-> g, n |-> n + 1] : g \in FsEdits(f)}
               \cup {[f1 |-> f, f2 |-> g, n |-> n + 1] : g \in FsEdits(f)}
          ELSE {})

Respond(r, d, i) ==
    /\ pc' = "done"
    /\ seen' = [f0 |-> fs, f1 |-> i.f1]
    /\ req' = r
    /\ \E out \in {d} :
          /\ branch' = [name |-> out.branch, target |-> out.target]
          /\ rw' = out.c.rw
          /\ sw' = out.ww
          /\ trace' = out.c.trace
          /\ run' = out.c.run
    /\ fs' = i.f2
    /\ edits' = i.n
    /\ UNCHANGED fileCfg
    /\ UNCHANGED <<lvars, gvars, wvars>>

\* The filesystem may change under any request with the default metadata;
\* the requests that vary the metadata are handled on a filesystem that
\* holds still, since nothing of the environment built from the metadata
\* is read from the filesystem.
Interference(r) ==
    IF r.Meta = DefaultMeta THEN Interfere(fs, edits)
    ELSE {[f1 |-> fs, f2 |-> fs, n |-> edits]}

\* One request, from the first stat to the return of the handler function.
\* The filesystem may change between the handler's probes.
HandleRequest ==
    /\ pc = "idle"
    /\ \E r \in Requests :
       \E i \in Interference(r) :
       \E probe \in {Dispatch(r, fs, i.f1, i.f2, FailedStart)} :
          IF probe.c.run.spawned
          THEN \E p \in ProcRuns(CanStart(i.f2, probe.c.run.cmd)) :
                  Respond(r, Dispatch(r, fs, i.f1, i.f2, p), i)
          ELSE Respond(r, probe, i)

\* The environment changes the filesystem between requests.
FsEdit ==
    /\ pc = "idle"
    /\ edits < MaxFsEdits
    /\ fs' \in FsEdits(fs)
    /\ edits' = edits + 1
    /\ seen' = [f0 |-> fs', f1 |-> fs']
    /\ UNCHANGED <<fileCfg, pc, req, branch, rw, sw, trace, run>>
    /\ UNCHANGED <<lvars, gvars, wvars>>

\* The handler has returned; the server waits for the next request.
NextRequest ==
    /\ pc = "done"
    /\ pc' = "idle"
    /\ req' = NoRequest
    /\ branch' = NoBranch
    /\ rw' = NewResponse
    /\ sw' = NoStatusWriter
    /\ trace' = <<>>
    /\ run' = NoRun
    /\ seen' = [f0 |-> fs, f1 |-> fs]
    /\ UNCHANGED <<fileCfg, fs, edits>>
    /\ UNCHANGED <<lvars, gvars, wvars>>

Next == HandleRequest \/ FsEdit \/ NextRequest

Spec == Init /\ [][Next]_vars

----------------------------------------------------------------------------
(* Vocabulary of the properties *)

Handled == pc = "done"

\* The path the request maps to: the root directory followed by the URL path.
FilePath == DefaultHomeDir \o req.Path

\* What that path named when the request arrived.
Target0 == Node(seen.f0, Clean(FilePath))

IsMissing0 ==
    Target0.kind = "none" \/ (HasTrailingSlash(FilePath) /\ Target0.kind = "file")
IsFile0 == Target0.kind = "file" /\ ~HasTrailingSlash(FilePath)
IsDir0 == Target0.kind = "dir"

\* The lowercased extension of a path is a key of the configured handler map.
Mapped(path) == ToLower(Ext(path)) \in {E_cgi, E_php}

\* Index name i of the configuration names, under the requested directory, a
\* file when the resolver probes it.
Qualifies(i) ==
    Node(seen.f1, Clean(FilePath \o <<Slash>> \o cfg.DefaultIndexes[i])).kind = "file"

NoIndexQualifies == \A i \in 1..Len(cfg.DefaultIndexes) : ~Qualifies(i)

FirstQualifying(i) ==
    Qualifies(i) /\ \A j \in 1..(i - 1) : ~Qualifies(j)

Count(op) == Cardinality({i \in 1..Len(trace) : trace[i].op = op})

PlainGet == req.Method = "GET" /\ req.Neg = "none"

----------------------------------------------------------------------------
(* C1 *)

C1_Case == Handled /\ IsFile0 /\ ~Mapped(FilePath)

\* C1 as stated: every request path that maps to an existing regular file
\* whose lowercased extension has no handler is answered 200 with the file's
\* bytes as the body.  Read in its favour: a GET without range or conditional
\* headers, for a readable file nobody touches during the request.
C1_Original ==
    (C1_Case /\ PlainGet /\ Target0 = FileNode /\ seen.f0 = fs)
        => rw.code = 200 /\ rw.body = FileData(Clean(FilePath))

\* C1, amended: a GET without range or conditional headers for such a file is
\* answered 200 with exactly the file's bytes provided the URL path does not
\* end in "/index.html" and the file is still there and readable when it is
\* opened; a URL path ending in "/index.html" is answered with a 301
\* redirect to "./" and no body.
C1_StaticFile ==
    C1_Case =>
        IF HasSuffix(req.Path, <<"/", "index", ".", "html">>)
        THEN rw.code = 301 /\ rw.location = <<".", "/">> /\ rw.body = <<>>
        ELSE (PlainGet /\ Node(fs, Clean(FilePath)) = FileNode)
             => /\ rw.code = 200
                /\ rw.body = FileData(Clean(FilePath))
                /\ ~rw.aborted

C1_Witness ==
    /\ C1_Case /\ PlainGet /\ req.Path = U_a
    /\ rw.code = 200 /\ rw.body = <<"A1", "A2">>

----------------------------------------------------------------------------
(* C2 *)

C2_Case == Handled /\ IsMissing0

\* The 404 page of the configuration is a readable file when the handler
\* reads it.
PageReadable(page) == Node(fs, Clean(page)).kind = "file" /\ Node(fs, Clean(page)).r

\* C2 as stated, its last part: a missing path requested with no
\* error_pages.404 in the config file is answered 404 with the literal
\* fallback message.
C2_Original ==
    (C2_Case /\ fileCfg.NotFound = <<>> /\ req.Method # "HEAD")
        => rw.code = 404 /\ rw.body = <<"404 page not found">>

\* C2, amended: a request whose path fails the stat probe is answered 404;
\* the body is the content of the configured 404 page when that file is
\* readable and the literal fallback message otherwise, where the configured
\* page is ./public/404.html when the config file names none: with
\* error_pages.404 unset the body is the fallback message only when
\* ./public/404.html is not readable.  The answer to a HEAD request has the
\* same status and no body.
C2_NotFound ==
    C2_Case =>
        LET page == IF fileCfg.NotFound = <<>>
                    THEN <<".", "/", "public", "/", "404", ".", "html">>
                    ELSE fileCfg.NotFound
        IN  /\ rw.code = 404
            /\ rw.body = IF req.Method = "HEAD" THEN <<>>
                         ELSE IF PageReadable(page) THEN FileData(Clean(page))
                         ELSE <<"404 page not found">>

C2_Witness ==
    /\ C2_Case /\ fileCfg.NotFound = <<>>
    /\ ~PageReadable(F_404)
    /\ rw.code = 404 /\ rw.body = <<"404 page not found">>

----------------------------------------------------------------------------
(* C3 *)

C3_Case == Handled /\ IsDir0 /\ NoIndexQualifies

\* The directory can be enumerated when the renderer reads it and every entry
\* is still there when its metadata is read.
Enumerable ==
    /\ Node(seen.f1, Clean(FilePath)).r
    /\ \A q \in FsPaths :
          (IsChild(q, Clean(FilePath)) /\ seen.f1[q].kind # "none")
              => fs[q].kind # "none"

----------------------------------------------------------------------------
(* C4 *)

C4_Case == Handled /\ IsDir0

\* C4: for a directory request the index file used is the first name of the
\* configured list, in configuration order, that names a file (not a
\* directory, not missing) under the directory; no index is used only when no
\* name of the list qualifies.
C4_IndexOrder ==
    C4_Case =>
        /\ \A i \in 1..Len(cfg.DefaultIndexes) :
              FirstQualifying(i) =>
                  /\ branch.name \in {"index-static", "index-handler"}
                  /\ branch.target = Clean(FilePath \o <<Slash>> \o cfg.DefaultIndexes[i])
        /\ NoIndexQualifies <=> branch.name = "dirlist"

\* The first name is skipped (a directory), the second is used.
C4_Witness ==
    /\ C4_Case /\ req.Path = U_root
    /\ cfg.DefaultIndexes = <<N_sub, N_index_html>>
    /\ FirstQualifying(2)
    /\ branch.target = F_index_html
    /\ rw.body = <<"I1">>

----------------------------------------------------------------------------
(* C5, C6, C7: the external handler *)

\* The request's target has a handler: the file itself, or the index file the
\* resolver finds in the directory.
HandlerTarget ==
    \/ IsFile0 /\ Mapped(FilePath)
    \/ IsDir0 /\ \E i \in 1..Len(cfg.DefaultIndexes) :
                    FirstQualifying(i) /\ Mapped(cfg.DefaultIndexes[i])

\* The configured command resolves to /srv/run: it is missing, or has no
\* execute bit, when the handler checks it.
CommandNotExecutable ==
    Node(seen.f1, <<"/", "srv", "/", "run">>).kind = "none"
    \/ ~Node(seen.f1, <<"/", "srv", "/", "run">>).x

Spawned == run.spawned
Exited0 == run.spawned /\ run.p.started /\ run.p.exit = 0
RunFailed == run.spawned /\ (~run.p.started \/ run.p.exit # 0)

\* Everything the process wrote, and what it wrote to standard output.
Written == [i \in 1..Len(run.p.chunks) |-> run.p.chunks[i].data]
WrittenToStdout ==
    LET o == SelectSeq(run.p.chunks, LAMBDA ch : ch.stream = "stdout")
    IN  [i \in 1..Len(o) |-> o[i].data]

C5_Case == Handled /\ HandlerTarget /\ CommandNotExecutable

\* C5: when the resolved command of a handler-mapped target does not exist or
\* has no execute bit, no process is spawned and the response is 500 with the
\* diagnostic message followed by the resolved command path.
C5_NotExecutable ==
    C5_Case =>
        /\ ~Spawned
        /\ Count("spawn") = 0
        /\ rw.code = 500
        /\ rw.body = <<"Handler executable not found or not executable: ",
                       "/", "srv", "/", "run">>

C5_Witness ==
    /\ C5_Case /\ req.Path = U_S_CGI
    /\ Node(seen.f1, F_cmd).kind = "file"
    /\ rw.code = 500 /\ ~Spawned

C6_Case == Handled /\ HandlerTarget /\ Exited0

\* C6 as stated: a handler command that exits 0 gives status 200, a body
\* equal to the command's standard output alone, and Content-Type
\* text/html; charset=utf-8.
C6_Original ==
    C6_Case =>
        /\ rw.code = 200
        /\ rw.body = WrittenToStdout
        /\ rw.ctype = <<"text/html; charset=utf-8">>

\* C6, amended: a handler command that exits 0 gives status 200, a body equal
\* to the command's captured output, standard output and standard error
\* combined in the order written, with nothing prepended or appended, and
\* Content-Type text/html; charset=utf-8.
C6_HandlerSuccess ==
    C6_Case =>
        /\ rw.code = 200
        /\ sw.Status = 200
        /\ rw.body = Written
        /\ rw.ctype = <<"text/html; charset=utf-8">>

C6_Witness ==
    /\ C6_Case
    /\ run.p.chunks = <<[stream |-> "stdout", data |-> "out"],
                        [stream |-> "stderr", data |-> "err"]>>
    /\ rw.code = 200 /\ rw.body = <<"out", "err">>

C7_Case == Handled /\ HandlerTarget /\ RunFailed

\* C7: when the handler process exits non-zero or fails to start, the status
\* is 500 and the body is exactly the captured output of the process
\* (standard output and standard error combined), nothing added.
C7_HandlerFailure ==
    C7_Case =>
        /\ rw.code = 500
        /\ sw.Status = 500
        /\ rw.body = Written

C7_Witness ==
    /\ C7_Case /\ run.p.started /\ run.p.exit = 1
    /\ rw.code = 500 /\ rw.body = <<"err", "out">>

----------------------------------------------------------------------------
(* C8, C9, C10: the log lines *)

\* Nothing changed the file tree while the request was handled.
Quiescent == seen.f0 = fs /\ seen.f1 = fs

\* The access-log line comes after every call that writes the response.
AccessLast ==
    \A i, j \in 1..Len(trace) :
        (trace[i].op = "access" /\ trace[j].op \in {"Write", "WriteHeader"})
            => j < i

\* C8: every request, on every branch, emits exactly one access-log line,
\* after the response has been written.
C8_OneAccessLine ==
    Handled => Count("access") = 1 /\ AccessLast

\* C9: every request, handled while the file tree is left alone, emits one
\* error-log line when the final captured status is 400 or more, and none
\* when it is below 400.
C9_ErrorLine ==
    (Handled /\ Quiescent)
        => Count("error") = (IF sw.Status >= 400 THEN 1 ELSE 0)

\* C10: every invocation of the external handler, with the file tree left
\* alone, emits exactly one handler-log line, with the final status, whether
\* the target is a top-level file or an index file found in a directory.
C10_HandlerLine ==
    (Handled /\ HandlerTarget /\ Quiescent) =>
        /\ Count("handler") = 1
        /\ \A i \in 1..Len(trace) :
              trace[i].op = "handler" => trace[i].status = sw.Status

----------------------------------------------------------------------------
(* C11: the environment of the external handler *)

\* The values the started process finds under a variable name.
Got(key) ==
    UNION {{e[i].v : i \in {j \in 1..Len(e) : e[j].k = key}} : e \in {Environ}}

\* The variable named after a header: HTTP_, the name upper-cased, hyphens
\* replaced by underscores.
HeaderVarName(h) ==
    CASE h = <<"Cookie">> -> <<"HTTP_", "COOKIE">>
      [] h = <<"X", "-", "Foo">> -> <<"HTTP_", "X", "_", "FOO">>
      [] h = <<"Content", "-", "Type">> -> <<"HTTP_", "CONTENT", "_", "TYPE">>
      [] h = <<"Content", "-", "Length">> -> <<"HTTP_", "CONTENT", "_", "LENGTH">>

\* All the header's values, comma-joined.
HeaderVarValue(h) ==
    LET vs == req.Meta.Header[h]
    IN  IF Len(vs) = 1 THEN <<vs[1]>> ELSE <<vs[1], ",", vs[2]>>

\* The variables that do not come from the header loop.
EnvFixed ==
    /\ Got(<<"PATH">>) = {<<"/bin">>}
    /\ Got(<<"REQUEST_METHOD">>) = {<<req.Method>>}
    /\ Got(<<"QUERY_STRING">>) = {req.Meta.RawQuery}
    /\ Got(<<"CONTENT_TYPE">>) =
          {IF <<"Content", "-", "Type">> \in DOMAIN req.Meta.Header
           THEN <<"text/plain">> ELSE <<>>}
    /\ Got(<<"CONTENT_LENGTH">>) =
          {IF <<"Content", "-", "Length">> \in DOMAIN req.Meta.Header
           THEN <<"3">> ELSE <<>>}
    /\ Got(<<"SCRIPT_NAME">>) = {req.Path}
    /\ Got(<<"PATH_INFO">>) = {branch.target}
    /\ Got(<<"REMOTE_ADDR">>) = {<<"10.0.0.1", ":", "5555">>}
    /\ Got(<<"HTTP_", "HOST">>) = {req.Meta.Host}
    /\ Got(<<"SERVER_PROTOCOL">>) = {<<"HTTP/1.1">>}
    /\ Got(<<"SERVER_NAME">>) = {<<"example", ".", "com">>}
    /\ Got(<<"SERVER_PORT">>) =
          (IF req.Meta.Host = <<"example", ".", "com", ":", "8080">>
           THEN {<<"8080">>} ELSE {})
    /\ Got(<<"REQUEST_URI">>) =
          {req.Path \o (IF req.Meta.RawQuery = <<>> THEN <<>>
                        ELSE <<"?">> \o req.Meta.RawQuery)}
    /\ (<<"Cookie">> \in DOMAIN req.Meta.Header) => Got(<<"HTTP_", "COOKIE">>) # {}

\* One variable per inbound header, with the header's values comma-joined.
EnvHeaders ==
    \A h \in DOMAIN req.Meta.Header :
        Got(HeaderVarName(h)) = {HeaderVarValue(h)}

\* C11: every spawned external handler receives the parent environment plus
\* the CGI variable set: the fixed variables, HTTP_COOKIE when a Cookie
\* header is present, and for every inbound header one HTTP_<HEADERNAME>
\* variable holding the header's values comma-joined.
C11_HandlerEnv ==
    (Handled /\ Spawned) => (EnvFixed /\ EnvHeaders)

----------------------------------------------------------------------------
(* The life of the process: start, signal, shutdown, exit.  Requests are *)
(* counted, not told apart.                                              *)

\* Most requests handled at the same time.
MaxInflight == 2
\* context.WithTimeout(context.Background(), 5*time.Second)
GracePeriod == 5

\* OpenLogFile gives the file, or nil when it cannot be opened; the listener
\* is not bound yet and main is about to wait for a signal.
LifecycleInit ==
    /\ main = "wait"
    /\ listener = "none"
    /\ inflight = 0
    /\ grace = 0
    /\ quit = FALSE
    /\ sinks \in [SinkNames -> {"open", "none"}]
    /\ shut = NotShut
    /\ outcome = "none"
    /\ Unused
    /\ LogIdle
    /\ WriterIdle

\* The goroutine's server.ListenAndServe binds the port.
BindOk ==
    /\ listener = "none" /\ main # "exited"
    /\ listener' = "open"
    /\ UNCHANGED <<main, inflight, grace, quit, sinks, shut, outcome>>
    /\ UNCHANGED <<dvars, gvars, wvars>>

\* server.ListenAndServe fails: the goroutine prints "Server failed:" and
\* ends; nothing is sent to the main goroutine.
BindFail ==
    /\ listener = "none" /\ main # "exited"
    /\ listener' = "failed"
    /\ UNCHANGED <<main, inflight, grace, quit, sinks, shut, outcome>>
    /\ UNCHANGED <<dvars, gvars, wvars>>

\* An interrupt or termination signal arrives; the channel holds one.
Signal ==
    /\ main # "exited" /\ ~quit
    /\ quit' = TRUE
    /\ UNCHANGED <<main, listener, inflight, grace, sinks, shut, outcome>>
    /\ UNCHANGED <<dvars, gvars, wvars>>

\* <-quit returns and server.Shutdown(ctx) starts: the listener is closed
\* first.
Quit ==
    /\ main = "wait" /\ quit
    /\ main' = "shutdown"
    /\ quit' = FALSE
    /\ listener' = IF listener = "failed" THEN "failed" ELSE "closed"
    /\ shut' = [shut EXCEPT !.requested = TRUE]
    /\ UNCHANGED <<inflight, grace, sinks, outcome>>
    /\ UNCHANGED <<dvars, gvars, wvars>>

\* The server accepts a connection and starts handling its request.
Accept ==
    /\ listener = "open" /\ main # "exited"
    /\ inflight < MaxInflight
    /\ inflight' = inflight + 1
    /\ UNCHANGED <<main, listener, grace, quit, sinks, shut, outcome>>
    /\ UNCHANGED <<dvars, gvars, wvars>>

\* A request ends: the handler function returns, or it panics and net/http
\* recovers the panic and drops the connection.
Finish ==
    /\ inflight > 0 /\ main # "exited"
    /\ inflight' = inflight - 1
    /\ outcome' \in {"returned", "panicked"}
    /\ UNCHANGED <<main, listener, grace, quit, sinks, shut>>
    /\ UNCHANGED <<dvars, gvars, wvars>>

\* A second of the grace period passes while Shutdown waits.
Tick ==
    /\ main = "shutdown" /\ inflight > 0 /\ grace < GracePeriod
    /\ grace' = grace + 1
    /\ UNCHANGED <<main, listener, inflight, quit, sinks, shut, outcome>>
    /\ UNCHANGED <<dvars, gvars, wvars>>

\* A variant of server.Shutdown that returns without waiting.
ShutdownReturns_NoWait ==
    /\ main = "shutdown"
    /\ main' = "returned"
    /\ shut' = [shut EXCEPT !.returned = TRUE, !.pending = inflight,
                            !.elapsed = grace]
    /\ UNCHANGED <<listener, inflight, grace, quit, sinks, outcome>>
    /\ UNCHANGED <<dvars, gvars, wvars>>

\* server.Shutdown returns: no request is being handled, or the context's
\* deadline has passed.
ShutdownReturns ==
    /\ main = "shutdown"
    /\ inflight = 0 \/ grace = GracePeriod
    /\ main' = "returned"
    /\ shut' = [shut EXCEPT !.returned = TRUE, !.pending = inflight,
                            !.elapsed = grace]
    /\ UNCHANGED <<listener, inflight, grace, quit, sinks, outcome>>
    /\ UNCHANGED <<dvars, gvars, wvars>>

\* main returns; the deferred functions run last registered first: the
\* handler log is closed,
CloseHandlerLog ==
    /\ main = "returned"
    /\ main' = "deferred"
    /\ sinks' = [sinks EXCEPT !["handler"] = IF @ = "open" THEN "closed" ELSE @]
    /\ UNCHANGED <<listener, inflight, grace, quit, shut, outcome>>
    /\ UNCHANGED <<dvars, gvars, wvars>>

\* then the access log and the error log,
CloseAccessErrorLogs ==
    /\ main = "deferred"
    /\ main' = "exiting"
    /\ sinks' = [sinks EXCEPT !["access"] = IF @ = "open" THEN "closed" ELSE @,
                              !["error"] = IF @ = "open" THEN "closed" ELSE @]
    /\ UNCHANGED <<listener, inflight, grace, quit, shut, outcome>>
    /\ UNCHANGED <<dvars, gvars, wvars>>

\* and the process ends, whatever is still running.
Exit ==
    /\ main = "exiting"
    /\ main' = "exited"
    /\ inflight' = 0
    /\ UNCHANGED <<listener, grace, quit, sinks, shut, outcome>>
    /\ UNCHANGED <<dvars, gvars, wvars>>

LifecycleNext ==
    \/ BindOk
    \/ BindFail
    \/ Signal
    \/ Quit
    \/ Accept
    \/ Finish
    \/ Tick
    \/ ShutdownReturns
    \/ CloseHandlerLog
    \/ CloseAccessErrorLogs
    \/ Exit

Lifecycle == LifecycleInit /\ [][LifecycleNext]_vars

\* The steps the process takes by itself happen when they can; signals and
\* connections come when the outside world sends them.
LifecycleFair ==
    /\ Lifecycle
    /\ WF_vars(BindOk \/ BindFail)
    /\ WF_vars(Quit)
    /\ WF_vars(Finish)
    /\ WF_vars(Tick)
    /\ WF_vars(ShutdownReturns)
    /\ WF_vars(CloseHandlerLog)
    /\ WF_vars(CloseAccessErrorLogs)
    /\ WF_vars(Exit)

----------------------------------------------------------------------------
(* C12 *)

ShutdownStarted == main \in {"shutdown", "returned", "deferred", "exiting", "exited"}
SomeSinkClosed == \E s \in SinkNames : sinks[s] = "closed"

\* C12: once the signal is received the server accepts no new connection and
\* Shutdown waits at most 5 seconds for the requests in flight; a log sink is
\* closed only after Shutdown was requested and has returned - with no
\* request in flight, or with the 5 seconds used up - and never while the
\* listener is open.
C12_Shutdown ==
    /\ ShutdownStarted => (shut.requested /\ listener # "open")
    /\ grace <= 5
    /\ shut.returned => (shut.pending = 0 \/ shut.elapsed = 5)
    /\ SomeSinkClosed =>
          /\ shut.requested /\ shut.returned
          /\ main \in {"deferred", "exiting", "exited"}
          /\ listener # "open"

\* The grace period ran out with a request still in flight, and the sinks
\* were closed then.
C12_Witness ==
    /\ \A s \in SinkNames : sinks[s] = "closed"
    /\ shut.returned /\ shut.pending > 0 /\ shut.elapsed = 5

----------------------------------------------------------------------------
(* C13 *)

\* C13: no request ends the process - it exits only after a shutdown was
\* requested - and a port that cannot be bound at startup ends the process,
\* signal or no signal.
C13_StartupFailure ==
    /\ [](main = "exited" => shut.requested)
    /\ [](outcome = "panicked" /\ ~shut.requested => main = "wait")
    /\ ((listener = "failed") ~> (main = "exited"))

----------------------------------------------------------------------------
(* The loggers: request goroutines writing lines to the three sinks *)

\* Most request goroutines logging at the same time.
MaxWorkers == 2
Workers == 1..MaxWorkers

\* The log calls of one request, in order: a static or index response; a
\* missing path; a handler that succeeds; a handler that fails.
Plans ==
    {<<"access">>, <<"error", "access">>, <<"handler", "access">>,
     <<"handler", "error", "access">>}

LoggingInit ==
    /\ worker \in [Workers -> [plan : Plans, at : {"ready"}]]
    /\ holders = [s \in SinkNames |-> {}]
    /\ written = [s \in SinkNames |-> <<>>]
    /\ Unused
    /\ Serving
    /\ WriterIdle

\* A variant with one mutex for all the loggers.
CanLock_Global(s) == \A t \in SinkNames : holders[t] = {}

\* Logger.mu of the sink's logger is free.
CanLock(s) == holders[s] = {}

\* One piece of a line written to a file: by whom, which of its lines (the
\* number of log calls it had left), and which part of the line.
Piece(w, part) == [w |-> w, k |-> Len(worker[w].plan), part |-> part]

\* Logger.Output: the line is formatted and the logger's mutex is taken.
LogLock(w) ==
    /\ worker[w].at = "ready" /\ worker[w].plan # <<>>
    /\ CanLock(Head(worker[w].plan))
    /\ holders' = [holders EXCEPT ![Head(worker[w].plan)] = @ \cup {w}]
    /\ worker' = [worker EXCEPT ![w].at = "locked"]
    /\ UNCHANGED written

\* l.out.Write(buf): the file takes the whole line in one write, or only
\* the first part of it.
LogWrite(w) ==
    /\ worker[w].at = "locked"
    /\ \/ /\ written' = [written EXCEPT ![Head(worker[w].plan)] =
                          Append(@, Piece(w, "line"))]
          /\ worker' = [worker EXCEPT ![w].at = "done"]
       \/ /\ written' = [written EXCEPT ![Head(worker[w].plan)] =
                          Append(@, Piece(w, "head"))]
          /\ worker' = [worker EXCEPT ![w].at = "partial"]
    /\ UNCHANGED holders

\* The write goes on with the rest of the line.
LogWriteRest(w) ==
    /\ worker[w].at = "partial"
    /\ written' = [written EXCEPT ![Head(worker[w].plan)] =
                    Append(@, Piece(w, "tail"))]
    /\ worker' = [worker EXCEPT ![w].at = "done"]
    /\ UNCHANGED holders

\* The mutex is released and the log call returns.
LogUnlock(w) ==
    /\ worker[w].at = "done"
    /\ holders' = [holders EXCEPT ![Head(worker[w].plan)] = @ \ {w}]
    /\ worker' = [worker EXCEPT ![w].plan = Tail(@), ![w].at = "ready"]
    /\ UNCHANGED written

Lock == \E w \in Workers : LogLock(w) /\ UNCHANGED <<dvars, lvars, wvars>>
WriteLine == \E w \in Workers : LogWrite(w) /\ UNCHANGED <<dvars, lvars, wvars>>
WriteRest == \E w \in Workers : LogWriteRest(w) /\ UNCHANGED <<dvars, lvars, wvars>>
Unlock == \E w \in Workers : LogUnlock(w) /\ UNCHANGED <<dvars, lvars, wvars>>

LoggingNext == Lock \/ WriteLine \/ WriteRest \/ Unlock

Logging == LoggingInit /\ [][LoggingNext]_vars

----------------------------------------------------------------------------
(* C14 *)

\* Every line in the file is whole: a first part is followed at once by the
\* rest of the same line, unless its writer is still writing it at the end
\* of the file; a rest follows its first part.
WholeLines(f) ==
    \A i \in 1..Len(f) :
        /\ f[i].part = "head" =>
              IF i = Len(f) THEN worker[f[i].w].at = "partial"
              ELSE f[i + 1] = [f[i] EXCEPT !.part = "tail"]
        /\ f[i].part = "tail" =>
              i > 1 /\ f[i - 1] = [f[i] EXCEPT !.part = "head"]

\* The goroutine is about to take the mutex of sink s.
Wants(w, s) ==
    worker[w].at = "ready" /\ worker[w].plan # <<>> /\ Head(worker[w].plan) = s

\* C14: with requests logging concurrently, every line of every sink is
\* written whole, at most one goroutine at a time is inside a write to a
\* given sink, and a goroutine about to write to a sink that no one is
\* writing to can go on, whatever is being written to the other sinks.
C14_LogAtomic ==
    /\ \A s \in SinkNames : WholeLines(written[s])
    /\ \A s \in SinkNames : Cardinality(holders[s]) <= 1
    /\ \A s \in SinkNames : \A w \in Workers :
          (Wants(w, s) /\ holders[s] = {}) => ENABLED LogLock(w)

\* Two goroutines write at the same time to different sinks, one of them in
\* the middle of a line, and a third line of the first sink is already
\* whole.
C14_Witness ==
    /\ holders["access"] # {} /\ holders["error"] # {}
    /\ holders["access"] # holders["error"]
    /\ \E w \in Workers : worker[w].at = "partial"
    /\ \E i \in 1..Len(written["error"]) : written["error"][i].part = "tail"

----------------------------------------------------------------------------
(* C15: the entries of the directory listing *)

\* The first position from i on at which the body holds the token.
RECURSIVE Find(_, _, _)
Find(body, i, tok) ==
    IF i > Len(body) \/ body[i] = tok THEN i ELSE Find(body, i + 1, tok)

\* The list items of a response body from position i on, in order: the href
\* and the link text of each.
RECURSIVE ItemsFrom(_, _)
ItemsFrom(body, i) ==
    IF Find(body, i, "<li><a href=\"") > Len(body) THEN <<>>
    ELSE LET start == Find(body, i, "<li><a href=\"")
             hrefEnd == Find(body, start, "\">")
             textEnd == Find(body, hrefEnd, "</a></li>")
         IN  <<[href |-> SubSeq(body, start + 1, hrefEnd - 1),
                text |-> SubSeq(body, hrefEnd + 1, textEnd - 1)]>>
             \o ItemsFrom(body, textEnd + 1)

Items == ItemsFrom(rw.body, 1)

\* The directory a directory request names.
ListedDir ==
    IF req.Path = <<"/">> THEN <<"public">> ELSE <<"public", "/", "sub">>

\* The immediate children of the requested directory when it is enumerated,
\* by name, and whether a name is a directory.
ChildNames ==
    LET d == ListedDir
    IN  {SubSeq(q, Len(d) + 2, Len(q)) :
            q \in {u \in FsPaths :
                      /\ seen.f1[u].kind # "none"
                      /\ Len(u) > Len(d) + 1
                      /\ SubSeq(u, 1, Len(d) + 1) = d \o <<"/">>
                      /\ \A i \in (Len(d) + 2)..Len(u) : u[i] # "/"}}
ChildIsDir(n) == seen.f1[ListedDir \o <<"/">> \o n].kind = "dir"
Shown(n) == IF ChildIsDir(n) THEN n \o <<"/">> ELSE n

\* The place of a name in ascending byte-wise order.
ByteRank(n) ==
    CASE n = <<"404", ".", "html">> -> 1
      [] n = <<"S", ".", "CGI">> -> 2
      [] n = <<"a", ".", "html">> -> 3
      [] n = <<"index", ".", "html">> -> 4
      [] n = <<"index", ".", "php">> -> 5
      [] n = <<"sub">> -> 6
      [] n = <<"z", ".", "txt">> -> 7

C15_Case == C3_Case /\ rw.code = 200 /\ ~rw.aborted

\* C15: the listing rendered for a directory without a matching index file
\* has one entry per immediate child of the directory and no other entry, in
\* ascending byte-wise order of name; the link text of an entry is the
\* child's name and its href ends with it, both followed by "/" exactly when
\* the child is a directory.
C15_ListingEntries ==
    C15_Case =>
        \E names \in {ChildNames} :
        \E items \in {Items} :
            /\ Len(items) = Cardinality(names)
            /\ {items[k].text : k \in 1..Len(items)} = {Shown(n) : n \in names}
            /\ \A k \in 1..Len(items) : HasSuffix(items[k].href, items[k].text)
            /\ \A k \in 1..(Len(items) - 1) :
                  \E n \in names : \E o \in names :
                      /\ Shown(n) = items[k].text
                      /\ Shown(o) = items[k + 1].text
                      /\ ByteRank(n) < ByteRank(o)

\* The listing of the root: files in upper and lower case and a directory,
\* whose own child is not listed.
C15_Witness ==
    /\ C15_Case /\ req.Path = U_root
    /\ Len(Items) = 6
    /\ Items[2].text = <<"S", ".", "CGI">>
    /\ Items[3].text = <<"a", ".", "html">>
    /\ Items[6].text = <<"sub", "/">>

----------------------------------------------------------------------------
(* C16 *)

\* The bodies a failure response may carry: the custom 404 page, a fallback
\* message of the server or of the file-serving primitive, the handler's
\* diagnostic, or what the handler process wrote.
FailureBodies ==
    {FileData(Clean(cfg.NotFound)),
     <<"404 page not found">>,
     <<"404 page not found", "\n">>,
     <<"403 Forbidden", "\n">>,
     <<"Failed to read directory.">>,
     <<"Handler executable not found or not executable: ",
       "/", "srv", "/", "run">>}
    \cup (IF run.spawned THEN {Written} ELSE {})

\* C16: every request is answered - a status line is written and the request
\* does not end in an abort - whatever the filesystem does between the
\* dispatcher's probes; and a response with status 400 or more to a request
\* other than HEAD carries the custom error page, a fallback message or the
\* handler's output.
C16_AlwaysAnswered ==
    Handled =>
        /\ ~rw.aborted
        /\ rw.wroteHeader
        /\ (rw.code >= 400 /\ req.Method # "HEAD") => rw.body \in FailureBodies

----------------------------------------------------------------------------
(* The StatusWriter under any sequence of calls *)

\* Longest sequence of calls made on one StatusWriter.
MaxCalls == 3

\* The statuses and the bodies the calls are drawn from.
Codes == {StatusOK, StatusNotFound, StatusInternalServerError, 304}
WriteArgs == {<<>>, <<"x">>, <<"y", "z">>}

CallOf(op, code, b) == [op |-> op, code |-> code, b |-> b]

\* ww := &logutil.StatusWriter{ResponseWriter: w, Status: 200}, for the
\* answer to a HEAD request or to another one.
WriterInit ==
    /\ wrapper \in {[c |-> [NewContext(TRUE, StatusOK) EXCEPT !.rw.head = h],
                     calls |-> <<>>] : h \in BOOLEAN}
    /\ Unused /\ Serving /\ LogIdle

\* ww.WriteHeader(code)
CallWriteHeader ==
    /\ Len(wrapper.calls) < MaxCalls
    /\ \E code \in Codes :
          wrapper' = [c |-> WriteHeader(wrapper.c, code),
                      calls |-> Append(wrapper.calls,
                                       CallOf("WriteHeader", code, <<>>))]
    /\ UNCHANGED <<dvars, lvars, gvars>>

\* ww.Write(b)
CallWrite ==
    /\ Len(wrapper.calls) < MaxCalls
    /\ \E b \in WriteArgs :
          wrapper' = [c |-> Write(wrapper.c, b),
                      calls |-> Append(wrapper.calls, CallOf("Write", 0, b))]
    /\ UNCHANGED <<dvars, lvars, gvars>>

WriterNext == CallWriteHeader \/ CallWrite

Writer == WriterInit /\ [][WriterNext]_vars

----------------------------------------------------------------------------
(* C17: what the StatusWriter records *)

\* The underlying response after one call made on it directly.
Direct(r, call) ==
    IF call.op = "WriteHeader" THEN RespWriteHeader(r, call.code)
    ELSE RespWrite(r, call.b)

\* The underlying response after a sequence of calls made on it directly.
RECURSIVE Replay(_, _)
Replay(r, cs) ==
    IF cs = <<>> THEN r ELSE Replay(Direct(r, Head(cs)), Tail(cs))

\* The bytes the underlying response accepts over a sequence of calls.
RECURSIVE Accepted(_, _)
Accepted(r, cs) ==
    IF cs = <<>> THEN 0
    ELSE (IF Head(cs).op = "Write" THEN RespWriteN(r, Head(cs).b) ELSE 0)
         + Accepted(Direct(r, Head(cs)), Tail(cs))

\* The code of the last status-setting call, 200 if there is none.
LastStatus(cs) ==
    LET ks == {k \in 1..Len(cs) : cs[k].op = "WriteHeader"}
    IN  IF ks = {} THEN StatusOK
        ELSE cs[CHOOSE k \in ks : \A j \in ks : j <= k].code

\* The response the wrapper was constructed around.
Fresh == [NewResponse EXCEPT !.head = wrapper.c.rw.head]

\* The wrapper's own record: last status, accepted bytes, calls forwarded.
Recorded ==
    /\ wrapper.c.Status = LastStatus(wrapper.calls)
    /\ wrapper.c.Bytes = Accepted(Fresh, wrapper.calls)
    /\ wrapper.c.rw = Replay(Fresh, wrapper.calls)
    /\ Len(wrapper.c.trace) = Len(wrapper.calls)
    /\ \A k \in 1..Len(wrapper.calls) :
          /\ wrapper.c.trace[k].op = wrapper.calls[k].op
          /\ wrapper.c.trace[k].status = wrapper.calls[k].code

\* The calls are made as the dispatcher's branches make them: the status is
\* set at most once, and before anything is written.
AsDispatched ==
    \A k \in 1..Len(wrapper.calls) :
        wrapper.calls[k].op = "WriteHeader" => k = 1

\* The status the client reads: the one written, or the 200 that net/http
\* writes when the handler returns without having written one.
ClientStatus(r) == IF r.wroteHeader THEN r.code ELSE StatusOK

\* C17: after any sequence of WriteHeader and Write calls on the
\* StatusWriter, its Status is the code of the last WriteHeader call (200 if
\* there was none), its Bytes is the sum of the counts the underlying
\* response accepted, and the underlying response is in the state the same
\* calls made on it directly leave it in; and for the sequences a request's
\* handler makes, the Status and Bytes that go into the access-log line are
\* the status and the body length the client observes.
C17_StatusWriter ==
    /\ Recorded
    /\ AsDispatched =>
          /\ wrapper.c.Status = ClientStatus(wrapper.c.rw)
          /\ wrapper.c.Bytes = Len(wrapper.c.rw.body)

----------------------------------------------------------------------------

----------------------------------------------------------------------------
(* C18: the handler map wins over static serving *)

\* The request's target has no handler: the file itself, or the index file
\* the resolver finds in the directory.
StaticTarget ==
    \/ IsFile0 /\ ~Mapped(FilePath)
    \/ IsDir0 /\ \E i \in 1..Len(cfg.DefaultIndexes) :
                    FirstQualifying(i) /\ ~Mapped(cfg.DefaultIndexes[i])

\* The response came from the external handler's code: the process was
\* spawned, or the not-executable diagnostic was written.
FromHandler ==
    \/ Spawned
    \/ rw.code = StatusInternalServerError
       /\ (req.Method # "HEAD" => rw.body # <<>> /\ rw.body[1] = NotExecutableMsg[1])

\* C18: the handler is looked up by the lowercased extension of the target,
\* for a requested file and for the index file found in a requested
\* directory alike: a target whose lowercased extension is a key of the
\* handler map goes to the external handler and its bytes are not served
\* (also when the command is not executable), and a target whose extension is
\* not a key goes to http.ServeFile without a process being spawned.
C18_HandlerPrecedence ==
    Handled =>
        /\ HandlerTarget =>
              /\ branch.name = (IF IsFile0 THEN "handler" ELSE "index-handler")
              /\ FromHandler
              /\ rw.body = <<>> \/ rw.body # FileData(branch.target)
        /\ StaticTarget =>
              /\ branch.name = (IF IsFile0 THEN "static" ELSE "index-static")
              /\ ~Spawned
              /\ Count("spawn") = 0

C18_Witness ==
    /\ Handled /\ HandlerTarget /\ req.Path = U_S_CGI
    /\ branch.name = "handler" /\ Spawned /\ Exited0
    /\ rw.code = StatusOK /\ rw.body = Written

----------------------------------------------------------------------------
============================================================================
